---- MODULE Spec2Model ----
(***************************************************************************)
(* DataBaseCoordinator (src/src/database-coordinator.js): one coordinator  *)
(* object holding ONE mysql connection (this.con).  Every method enqueues  *)
(* its statements on that connection; the mysql driver runs the queue in   *)
(* FIFO order, one statement at a time, and calls the statement's callback *)
(* with (err, result).  Calls of different requests interleave between     *)
(* statements.  A `throw` inside a driver callback is an uncaught          *)
(* exception: the process ends and the server rolls back whatever the      *)
(* connection had not committed.                                           *)
(***************************************************************************)
EXTENDS Integers, Sequences, FiniteSets, TLC

VARIABLES
  isConnected,  \* this.isConnected
  conn,         \* state of this.con: "connecting", "ready", "failed"
  queue,        \* statements enqueued on this.con, oldest first
  db,           \* the tables as the connection's session sees them
  committed,    \* the tables as committed (what survives a rollback or a crash)
  inTx,         \* the session has an open transaction
  autoinc,      \* AUTO_INCREMENT counters (not rolled back)
  calls,        \* every coordinator call issued so far, in issue order
  now,          \* wall clock, in whole seconds (the resolution of `date`)
  fails,        \* storage failures injected so far
  crashed,      \* an uncaught exception ended the process
  requests      \* the HTTP requests the api router has received, in arrival order

vars == <<isConnected, conn, queue, db, committed, inTx, autoinc, calls, now, fails, crashed, requests>>

----------------------------------------------------------------------------
(* Bounds of the model *)

MaxCalls == 3
MaxTime == 2
MaxFail == 1
MaxRequests == 2

(* Inputs *)

Identifiers == {"feeder-42"}
Users == {7, 9}
Names == {"bowl"}
Amounts == {5}

\* Strings that are matched by LIKE are sequences of characters.
IPs == { <<"7">>, <<"7", "9">> }

\* What a socket reports for a peer: address, ':' and port, the address being
\* the IPv4-mapped form "::f:<ip>".
SocketAddr(x) == <<":", ":", "f", ":">> \o x \o <<":", "p">>

\* The strings a check-in is registered with: a bare IP or the socket form.
CheckInAddrs == { <<"7">> } \cup { SocketAddr(x) : x \in IPs }

\* The IP a check-in string stands for.
SourceIP(a) == CHOOSE x \in IPs : a = x \/ a = SocketAddr(x)

Meal1 == [time |-> 8, quantity |-> 20, enabled |-> TRUE]
Meal2 == [time |-> 18, quantity |-> 5, enabled |-> FALSE]
Plannings == { <<>>, <<Meal2, Meal1>> }

\* Buffers are sequences of bytes, type tags sequences of characters.
NoiseBytes == <<157, 161, 20, 65, 76>>      \* 0x9d 0xa1 0x14 0x41 0x4c
Payloads == { NoiseBytes, NoiseBytes \o <<0>>, <<0>> \o NoiseBytes, <<157>> }
TypeTagLength == 64
TypeTags == { <<"p", "i", "n", "g">>, [i \in 1..(TypeTagLength + 1) |-> "t"] }
AlertData == { <<1>> }
LogIPs == { <<"7">> }

NULL == 0          \* SQL NULL in an id column (ids start at 1)
NoName == ""       \* SQL NULL in feeders.name
NoAmount == -1     \* SQL NULL in feeders.default_value
NoRow == [id |-> 0] \* JavaScript undefined, where a row is expected
NoEmail == <<>>    \* SQL NULL / JavaScript null in users.email_unvalidated
NoHash == [text |-> <<>>, secret |-> ""]

----------------------------------------------------------------------------
(* The tables *)

EmptyDb ==
  [feeders |-> {}, plannings |-> {}, meals |-> {}, alerts |-> {}, unknown_data |-> {},
   users |-> {}]

\* feeders.identifier is unique.
IdentifierFree(d, identifier) == \A r \in d.feeders : r.identifier # identifier

\* (SELECT id FROM feeders WHERE identifier = ?)
FeederIdOf(d, identifier) ==
  IF \E r \in d.feeders : r.identifier = identifier
  THEN (CHOOSE r \in d.feeders : r.identifier = identifier).id
  ELSE NULL

\* The pattern '%:' + ip + ':%' applied to a column value.
Like(col, ip) ==
  LET pat == <<":">> \o ip \o <<":">>
  IN \E i \in 1..Len(col) :
       /\ i + Len(pat) - 1 <= Len(col)
       /\ SubSeq(col, i, i + Len(pat) - 1) = pat


\* The WHERE clause of the claim without "owner IS NULL".
ClaimWhereAnyOwner(r, identifier, ip) ==
  /\ r.identifier = identifier
  /\ Like(r.ip, ip)

\* UPDATE feeders SET owner = ? WHERE owner IS NULL AND identifier = ? AND ip LIKE ?
ClaimWhere(r, identifier, ip) ==
  /\ r.owner = NULL
  /\ r.identifier = identifier
  /\ Like(r.ip, ip)

\* The WHERE clause of the association check without "owner = ?".
AssociationWhereAnyOwner(r, id, user) ==
  r.id = id

\* SELECT * FROM feeders WHERE owner = ? AND id = ?
AssociationWhere(r, id, user) ==
  /\ r.owner = user
  /\ r.id = id

\* The subquery without "WHERE p.feeder = ?": the latest planning of any feeder.
CurrentPlanningIdsAnyFeeder(d, id) ==
  { p.id : p \in { p \in d.plannings : \A q \in d.plannings : q.date <= p.date } }

\* (SELECT p.id FROM plannings p WHERE p.feeder = ? ORDER BY p.date DESC LIMIT 1):
\* the plannings of the feeder with the greatest date; with several of them the
\* server may return any one.
CurrentPlanningIds(d, id) ==
  { p.id : p \in { p \in d.plannings :
                     /\ p.feeder = id
                     /\ \A q \in d.plannings : q.feeder = id => q.date <= p.date } }

\* SELECT time, quantity, enabled FROM meals WHERE planning = <pid>
MealRows(d, pid) == { m \in d.meals : m.planning = pid }

\* new Meal(row.time, row.quantity, row.enabled)
MealFromRow(m) == [time |-> m.time, quantity |-> m.quantity, enabled |-> m.enabled]

\* The orders in which a SELECT without ORDER BY may deliver the rows S.
Orderings(S) ==
  { s \in [1..Cardinality(S) -> S] : \A i, j \in 1..Cardinality(S) : i # j => s[i] # s[j] }

\* What getCurrentPlanning may hand to its callback, as sequences of meals.
CurrentPlanningResults(d, id) ==
  IF CurrentPlanningIds(d, id) = {}
  THEN { <<>> }
  ELSE UNION { { [i \in DOMAIN s |-> MealFromRow(s[i])] : s \in Orderings(MealRows(d, pid)) }
               : pid \in CurrentPlanningIds(d, id) }

\* planning.sqled(insertId): one row (planning, time, quantity, enabled) per meal,
\* numbered from the table's AUTO_INCREMENT counter.
PlanningSqled(planning, insertId, firstId) ==
  { [id |-> firstId + i - 1, planning |-> insertId, feeder |-> NULL, date |-> NULL,
     time |-> planning[i].time, quantity |-> planning[i].quantity,
     enabled |-> planning[i].enabled] : i \in DOMAIN planning }

----------------------------------------------------------------------------
(* Calls and the statement queue *)

FeederIds == 1..Cardinality(Identifiers)

NewCall(op) ==
  [op |-> op, identifier |-> "", id |-> NULL, user |-> NULL, ip |-> <<>>, name |-> NoName,
   amount |-> NoAmount, planning |-> <<>>, date |-> now, type |-> <<>>, data |-> <<>>,
   self |-> NoRow,         \* the User object a method of models/user.js runs on
   email |-> NoEmail, timestamp |-> 0, hash |-> NoHash,
   status |-> "pending",   \* pending, resolved, rejected, done, skipped, thrown, lost
   ok |-> FALSE,           \* the boolean a promise resolved with
   row |-> NoRow,          \* the row a promise resolved with
   meals |-> <<>>,         \* the meals handed to the callback
   insertId |-> NULL,      \* result.insertId of the planning header
   matched |-> FALSE,      \* claimFeeder: a feeder with the identifier matched the IP pattern
   failedAt |-> ""]        \* the statement whose error ended the call

CallIds == 1..Len(calls)

Stmt(c, s) == [call |-> c, stmt |-> s]

CanCall == ~crashed /\ Len(calls) < MaxCalls

\* A method is entered: its call is recorded and its first statement enqueued.
Issue(rec, stmts) ==
  /\ CanCall
  /\ calls' = Append(calls, rec)
  /\ queue' = queue \o [i \in DOMAIN stmts |-> Stmt(Len(calls) + 1, stmts[i])]
  /\ UNCHANGED <<isConnected, conn, db, committed, inTx, autoinc, now, fails, crashed, requests>>

\* The driver takes the oldest statement; ok says whether the server ran it.
Runs(stmt, ok) ==
  /\ ~crashed
  /\ conn # "connecting"
  /\ queue # <<>>
  /\ Head(queue).stmt = stmt
  /\ conn = "failed" => ~ok
  /\ (conn = "ready" /\ ~ok) => fails < MaxFail
  /\ fails' = IF conn = "ready" /\ ~ok THEN fails + 1 ELSE fails
  /\ UNCHANGED <<conn, now, requests>>

\* The statement's callback returns normally: the call becomes rec, the tables
\* newdb (committed at once unless a transaction is open), more is enqueued.
Returns(rec, newdb, newauto, more) ==
  /\ calls' = [calls EXCEPT ![Head(queue).call] = rec]
  /\ queue' = Tail(queue) \o [i \in DOMAIN more |-> Stmt(Head(queue).call, more[i])]
  /\ db' = newdb
  /\ committed' = IF inTx THEN committed ELSE newdb
  /\ autoinc' = newauto
  /\ UNCHANGED <<isConnected, inTx, crashed>>

\* The process ends on an uncaught exception: pending calls never complete and
\* the server rolls the connection's open transaction back.
Lost(cs) ==
  [i \in DOMAIN cs |-> IF cs[i].status = "pending" THEN [cs[i] EXCEPT !.status = "lost"] ELSE cs[i]]

\* The statement's callback throws.
Throws(cs) ==
  /\ calls' = Lost(cs)
  /\ queue' = <<>>
  /\ db' = committed
  /\ inTx' = FALSE
  /\ crashed' = TRUE
  /\ UNCHANGED <<isConnected, committed, autoinc>>

----------------------------------------------------------------------------
(* Construction *)

Init ==
  /\ isConnected = FALSE
  /\ conn = "connecting"
  /\ queue = <<>>
  /\ db = EmptyDb
  /\ committed = EmptyDb
  /\ inTx = FALSE
  /\ autoinc = [feeders |-> 1, plannings |-> 1, meals |-> 1, alerts |-> 1, unknown_data |-> 1]
  /\ calls = <<>>
  /\ now = 1
  /\ fails = 0
  /\ crashed = FALSE
  /\ requests = <<>>

\* con.connect succeeds: its callback enqueues SHOW TABLES LIKE 'feeders'.
Connect ==
  /\ ~crashed
  /\ conn = "connecting"
  /\ conn' = "ready"
  /\ queue' = Append(queue, Stmt(0, "show.tables"))
  /\ UNCHANGED <<isConnected, db, committed, inTx, autoinc, calls, now, fails, crashed, requests>>

\* con.connect fails: the error is logged, every statement ends with an error.
ConnectFails ==
  /\ ~crashed
  /\ conn = "connecting"
  /\ conn' = "failed"
  /\ UNCHANGED <<isConnected, queue, db, committed, inTx, autoinc, calls, now, fails, crashed, requests>>

\* The callback of SHOW TABLES: the tables exist, the coordinator is ready.  On
\* an error result is undefined and result.length throws.
ExecShowTables(ok) ==
  /\ Runs("show.tables", ok)
  /\ IF ok
     THEN /\ isConnected' = TRUE
          /\ queue' = Tail(queue)
          /\ UNCHANGED <<db, committed, inTx, autoinc, calls, crashed>>
     ELSE Throws(calls)

\* A second of wall-clock time passes.
Tick ==
  /\ ~crashed
  /\ now < MaxTime
  /\ now' = now + 1
  /\ UNCHANGED <<isConnected, conn, queue, db, committed, inTx, autoinc, calls, fails, crashed, requests>>

----------------------------------------------------------------------------
(* registerFeeder(identifier, ip) *)

RegisterFeeder(identifier, ip) ==
  Issue([NewCall("registerFeeder") EXCEPT !.identifier = identifier, !.ip = ip],
        <<"register.update">>)

\* UPDATE feeders SET last_responded = ?, ip = ? WHERE identifier = ?
RegisterUpdated(d, c) ==
  [d EXCEPT !.feeders =
     { IF r.identifier = c.identifier
       THEN [r EXCEPT !.last_responded = c.date, !.ip = c.ip]
       ELSE r : r \in d.feeders }]

\* INSERT INTO feeders(identifier, last_responded, ip) VALUES (?, ?, ?)
RegisterInserted(d, c, id) ==
  [d EXCEPT !.feeders = @ \cup
     { [id |-> id, identifier |-> c.identifier, owner |-> NULL, ip |-> c.ip,
        last_responded |-> c.date, name |-> NoName, default_value |-> NoAmount] }]

ExecRegisterUpdate(ok) ==
  /\ Runs("register.update", ok)
  /\ LET c == calls[Head(queue).call]
         affectedRows == Cardinality({ r \in db.feeders : r.identifier = c.identifier })
     IN IF ~ok
        THEN Returns([c EXCEPT !.status = "rejected", !.failedAt = "register.update"],
                     db, autoinc, <<>>)
        ELSE IF affectedRows < 1
        THEN Returns(c, db, autoinc, <<"register.insert">>)
        ELSE Returns([c EXCEPT !.status = "resolved"], RegisterUpdated(db, c), autoinc, <<>>)

\* The INSERT into a table that has no unique key on identifier.
ExecRegisterInsertNoKey(ok) ==
  /\ Runs("register.insert", ok)
  /\ LET c == calls[Head(queue).call]
     IN IF ok
        THEN Returns([c EXCEPT !.status = "resolved"],
                     RegisterInserted(db, c, autoinc.feeders),
                     [autoinc EXCEPT !.feeders = @ + 1], <<>>)
        ELSE Returns([c EXCEPT !.status = "rejected", !.failedAt = "register.insert"],
                     db, autoinc, <<>>)

\* The INSERT ends with a duplicate-key error when the identifier exists by now.
ExecRegisterInsert(ok) ==
  /\ Runs("register.insert", ok)
  /\ LET c == calls[Head(queue).call]
     IN IF ok /\ IdentifierFree(db, c.identifier)
        THEN Returns([c EXCEPT !.status = "resolved"],
                     RegisterInserted(db, c, autoinc.feeders),
                     [autoinc EXCEPT !.feeders = @ + 1], <<>>)
        ELSE Returns([c EXCEPT !.status = "rejected", !.failedAt = "register.insert"],
                     db, autoinc, <<>>)

----------------------------------------------------------------------------
(* claimFeeder(identifier, user_id, ip) *)

ClaimFeeder(identifier, user, ip) ==
  Issue([NewCall("claimFeeder") EXCEPT !.identifier = identifier, !.user = user, !.ip = ip],
        <<"claim.update">>)

ClaimUpdated(d, c) ==
  [d EXCEPT !.feeders =
     { IF ClaimWhere(r, c.identifier, c.ip) THEN [r EXCEPT !.owner = c.user] ELSE r
       : r \in d.feeders }]

ExecClaimUpdate(ok) ==
  /\ Runs("claim.update", ok)
  /\ LET c == calls[Head(queue).call]
         affectedRows == Cardinality({ r \in db.feeders : ClaimWhere(r, c.identifier, c.ip) })
     IN IF ~ok
        THEN Returns([c EXCEPT !.status = "rejected", !.failedAt = "claim.update"],
                     db, autoinc, <<>>)
        ELSE Returns([c EXCEPT !.status = "resolved", !.ok = (affectedRows >= 1),
                               !.matched = \E r \in db.feeders :
                                             r.identifier = c.identifier /\ Like(r.ip, c.ip)],
                     ClaimUpdated(db, c), autoinc, <<>>)

----------------------------------------------------------------------------
(* checkFeederAssociation(feeder_id, user_id) *)

CheckFeederAssociation(id, user) ==
  Issue([NewCall("checkFeederAssociation") EXCEPT !.id = id, !.user = user],
        <<"association.select">>)

\* result.length ? result[0] : undefined
ExecAssociationSelect(ok) ==
  /\ Runs("association.select", ok)
  /\ LET c == calls[Head(queue).call]
         result == { r \in db.feeders : AssociationWhere(r, c.id, c.user) }
     IN IF ~ok
        THEN Returns([c EXCEPT !.status = "rejected", !.failedAt = "association.select"],
                     db, autoinc, <<>>)
        ELSE \E row \in (IF result = {} THEN {NoRow} ELSE result) :
               Returns([c EXCEPT !.status = "resolved", !.row = row], db, autoinc, <<>>)

----------------------------------------------------------------------------
(* setFeederName(id, name) *)

SetFeederName(id, name) ==
  Issue([NewCall("setFeederName") EXCEPT !.id = id, !.name = name], <<"name.update">>)

\* UPDATE feeders SET name = ? WHERE id = ?
NameUpdated(d, c) ==
  [d EXCEPT !.feeders =
     { IF r.id = c.id THEN [r EXCEPT !.name = c.name] ELSE r : r \in d.feeders }]

ExecNameUpdate(ok) ==
  /\ Runs("name.update", ok)
  /\ LET c == calls[Head(queue).call]
         affectedRows == Cardinality({ r \in db.feeders : r.id = c.id })
     IN IF ~ok
        THEN Returns([c EXCEPT !.status = "rejected", !.failedAt = "name.update"],
                     db, autoinc, <<>>)
        ELSE Returns([c EXCEPT !.status = "resolved", !.ok = (affectedRows >= 1)],
                     NameUpdated(db, c), autoinc, <<>>)

----------------------------------------------------------------------------
(* rememberDefaultAmount(identifier, quantity) *)

\* Returns at once; without isReady() nothing is written.
RememberDefaultAmount(identifier, amount) ==
  IF isConnected
  THEN Issue([NewCall("rememberDefaultAmount") EXCEPT !.identifier = identifier,
                                                      !.amount = amount],
             <<"default.update">>)
  ELSE Issue([NewCall("rememberDefaultAmount") EXCEPT !.identifier = identifier,
                                                      !.amount = amount,
                                                      !.status = "skipped"],
             <<>>)

\* UPDATE feeders SET default_value = ? WHERE identifier = ?
DefaultUpdated(d, c) ==
  [d EXCEPT !.feeders =
     { IF r.identifier = c.identifier THEN [r EXCEPT !.default_value = c.amount] ELSE r
       : r \in d.feeders }]

ExecDefaultUpdate(ok) ==
  /\ Runs("default.update", ok)
  /\ LET c == calls[Head(queue).call]
     IN IF ok
        THEN Returns([c EXCEPT !.status = "done"], DefaultUpdated(db, c), autoinc, <<>>)
        ELSE Throws([calls EXCEPT ![Head(queue).call].failedAt = "default.update"])

----------------------------------------------------------------------------
(* recordMeal(identifier, quantity) *)

RecordMeal(identifier, amount) ==
  IF isConnected
  THEN Issue([NewCall("recordMeal") EXCEPT !.identifier = identifier, !.amount = amount],
             <<"meal.insert">>)
  ELSE Issue([NewCall("recordMeal") EXCEPT !.identifier = identifier, !.amount = amount,
                                           !.status = "skipped"],
             <<>>)

\* INSERT INTO meals(feeder, date, time, quantity)
\*   VALUES ((SELECT id FROM feeders WHERE identifier = ?), ?, ?, ?)
MealInserted(d, c, id) ==
  [d EXCEPT !.meals = @ \cup
     { [id |-> id, planning |-> NULL, feeder |-> FeederIdOf(d, c.identifier),
        date |-> c.date, time |-> c.date, quantity |-> c.amount, enabled |-> TRUE] }]

ExecMealInsert(ok) ==
  /\ Runs("meal.insert", ok)
  /\ LET c == calls[Head(queue).call]
     IN IF ok
        THEN Returns([c EXCEPT !.status = "done"], MealInserted(db, c, autoinc.meals),
                     [autoinc EXCEPT !.meals = @ + 1], <<>>)
        ELSE Throws([calls EXCEPT ![Head(queue).call].failedAt = "meal.insert"])

----------------------------------------------------------------------------
(* getCurrentPlanning(id, callback) *)

\* Without isReady() the method throws 'Database is not ready' to its caller.
GetCurrentPlanning(id) ==
  IF isConnected
  THEN Issue([NewCall("getCurrentPlanning") EXCEPT !.id = id], <<"planning.select">>)
  ELSE Issue([NewCall("getCurrentPlanning") EXCEPT !.id = id, !.status = "thrown"], <<>>)

\* callback(new Planning(results.map(...)))
ExecPlanningSelect(ok) ==
  /\ Runs("planning.select", ok)
  /\ LET c == calls[Head(queue).call]
     IN IF ok
        THEN \E meals \in CurrentPlanningResults(db, c.id) :
               Returns([c EXCEPT !.status = "resolved", !.meals = meals], db, autoinc, <<>>)
        ELSE Throws([calls EXCEPT ![Head(queue).call].failedAt = "planning.select"])

----------------------------------------------------------------------------
(* recordPlanning(identifier, planning) *)

\* Returns at once (nothing is returned or thrown to the caller); without
\* isReady() nothing is written.
RecordPlanning(identifier, planning) ==
  IF isConnected
  THEN Issue([NewCall("recordPlanning") EXCEPT !.identifier = identifier,
                                               !.planning = planning],
             <<"planning.begin">>)
  ELSE Issue([NewCall("recordPlanning") EXCEPT !.identifier = identifier,
                                               !.planning = planning,
                                               !.status = "skipped"],
             <<>>)

\* The header written over the plannings table instead of added to it.
HeaderInsertedReplacing(d, c, id) ==
  [d EXCEPT !.plannings =
     { [id |-> id, feeder |-> FeederIdOf(d, c.identifier), date |-> c.date] }]

\* INSERT INTO plannings(feeder, date)
\*   VALUES ((SELECT id FROM feeders WHERE identifier = ?), ?)
HeaderInserted(d, c, id) ==
  [d EXCEPT !.plannings = @ \cup
     { [id |-> id, feeder |-> FeederIdOf(d, c.identifier), date |-> c.date] }]

\* INSERT INTO meals(planning, time, quantity, enabled) VALUES ?
MealsInserted(d, c, firstId) ==
  [d EXCEPT !.meals = @ \cup PlanningSqled(c.planning, c.insertId, firstId)]

\* connection.beginTransaction: START TRANSACTION commits whatever transaction
\* the session has open and opens a new one.
ExecPlanningBegin(ok) ==
  /\ Runs("planning.begin", ok)
  /\ IF ok
     THEN /\ inTx' = TRUE
          /\ committed' = db
          /\ queue' = Append(Tail(queue), Stmt(Head(queue).call, "planning.header"))
          /\ UNCHANGED <<isConnected, db, autoinc, calls, crashed>>
     ELSE Throws([calls EXCEPT ![Head(queue).call].failedAt = "planning.begin"])

ExecPlanningHeader(ok) ==
  /\ Runs("planning.header", ok)
  /\ LET c == calls[Head(queue).call]
     IN IF ok
        THEN Returns([c EXCEPT !.insertId = autoinc.plannings],
                     HeaderInserted(db, c, autoinc.plannings),
                     [autoinc EXCEPT !.plannings = @ + 1],
                     IF Len(c.planning) = 0 THEN <<"planning.commit">>
                                            ELSE <<"planning.meals">>)
        ELSE Returns([c EXCEPT !.failedAt = "planning.header"], db, autoinc,
                     <<"planning.rollback">>)

\* A failing bulk INSERT inserts none of its rows.
ExecPlanningMeals(ok) ==
  /\ Runs("planning.meals", ok)
  /\ LET c == calls[Head(queue).call]
     IN IF ok
        THEN Returns(c, MealsInserted(db, c, autoinc.meals),
                     [autoinc EXCEPT !.meals = @ + Len(c.planning)],
                     <<"planning.commit">>)
        ELSE Returns([c EXCEPT !.failedAt = "planning.meals"], db, autoinc,
                     <<"planning.rollback">>)

\* connection.commit
ExecPlanningCommit(ok) ==
  /\ Runs("planning.commit", ok)
  /\ LET c == calls[Head(queue).call]
     IN IF ok
        THEN /\ calls' = [calls EXCEPT ![Head(queue).call].status = "done"]
             /\ queue' = Tail(queue)
             /\ committed' = db
             /\ inTx' = FALSE
             /\ UNCHANGED <<isConnected, db, autoinc, crashed>>
        ELSE /\ calls' = [calls EXCEPT ![Head(queue).call].failedAt = "planning.commit"]
             /\ queue' = Append(Tail(queue), Stmt(Head(queue).call, "planning.rollback"))
             /\ UNCHANGED <<isConnected, db, committed, inTx, autoinc, crashed>>

\* connection.rollback(() => { throw err; }): the session's uncommitted writes
\* are undone (by ROLLBACK, or by the server when the process ends), and the
\* callback throws the error of the failed statement.
ExecPlanningRollback(ok) ==
  /\ Runs("planning.rollback", ok)
  /\ Throws(calls)

----------------------------------------------------------------------------
(* logAlert(identifier, type, data) *)

LogAlert(identifier, type, data) ==
  IF isConnected
  THEN Issue([NewCall("logAlert") EXCEPT !.identifier = identifier, !.type = type,
                                         !.data = data],
             <<"alert.insert">>)
  ELSE Issue([NewCall("logAlert") EXCEPT !.identifier = identifier, !.type = type,
                                         !.data = data, !.status = "skipped"],
             <<>>)

\* INSERT INTO alerts(feeder, type, date, data)
\*   VALUES ((SELECT id FROM feeders WHERE identifier = ?), ?, ?, ?)
\* data being the bytes of JSON.stringify(data).
AlertInserted(d, c, id) ==
  [d EXCEPT !.alerts = @ \cup
     { [id |-> id, feeder |-> FeederIdOf(d, c.identifier), type |-> c.type,
        date |-> c.date, data |-> c.data] }]

ExecAlertInsert(ok) ==
  /\ Runs("alert.insert", ok)
  /\ LET c == calls[Head(queue).call]
     IN IF ok
        THEN Returns([c EXCEPT !.status = "done"], AlertInserted(db, c, autoinc.alerts),
                     [autoinc EXCEPT !.alerts = @ + 1], <<>>)
        ELSE Throws([calls EXCEPT ![Head(queue).call].failedAt = "alert.insert"])

----------------------------------------------------------------------------
(* logUnknownData(type, data, ip) *)

HexDigits == <<"0", "1", "2", "3", "4", "5", "6", "7", "8", "9", "a", "b", "c", "d", "e", "f">>

\* data.toString('hex'): two digits per byte.
ToHex(data) ==
  [i \in 1..(2 * Len(data)) |->
     IF i % 2 = 1 THEN HexDigits[(data[(i + 1) \div 2] \div 16) + 1]
                  ELSE HexDigits[(data[i \div 2] % 16) + 1]]

NoiseHex == <<"9", "d", "a", "1", "1", "4", "4", "1", "4", "c">>

\* The pattern without its "$": every text that starts with the noise digits.
MatchesNoisePrefix(hex) ==
  /\ Len(hex) >= Len(NoiseHex)
  /\ SubSeq(hex, 1, Len(NoiseHex)) = NoiseHex

\* hex.match(/^9da114414c$/)
MatchesNoise(hex) == hex = NoiseHex

\* type.substring(0, n)
Substring(type, n) == SubSeq(type, 1, IF Len(type) < n THEN Len(type) ELSE n)

LogUnknownData(type, data, ip) ==
  IF isConnected /\ ~MatchesNoise(ToHex(data))
  THEN Issue([NewCall("logUnknownData") EXCEPT !.type = type, !.data = data, !.ip = ip],
             <<"unknown.insert">>)
  ELSE Issue([NewCall("logUnknownData") EXCEPT !.type = type, !.data = data, !.ip = ip,
                                               !.status = "skipped"],
             <<>>)

\* INSERT INTO unknown_data(date, type, ip, data) VALUES (?, ?, ?, ?)
UnknownInserted(d, c, id) ==
  [d EXCEPT !.unknown_data = @ \cup
     { [id |-> id, date |-> c.date, type |-> Substring(c.type, TypeTagLength),
        ip |-> c.ip, data |-> c.data] }]

ExecUnknownInsert(ok) ==
  /\ Runs("unknown.insert", ok)
  /\ LET c == calls[Head(queue).call]
     IN IF ok
        THEN Returns([c EXCEPT !.status = "done"],
                     UnknownInserted(db, c, autoinc.unknown_data),
                     [autoinc EXCEPT !.unknown_data = @ + 1], <<>>)
        ELSE Throws([calls EXCEPT ![Head(queue).call].failedAt = "unknown.insert"])

----------------------------------------------------------------------------
(* The coordinator *)

Next ==
  \/ Connect
  \/ ConnectFails
  \/ Tick
  \/ \E ok \in BOOLEAN : ExecShowTables(ok)
  \/ \E d \in Identifiers, a \in CheckInAddrs : RegisterFeeder(d, a)
  \/ \E ok \in BOOLEAN : ExecRegisterUpdate(ok)
  \/ \E ok \in BOOLEAN : ExecRegisterInsert(ok)
  \/ \E d \in Identifiers, u \in Users, x \in IPs : ClaimFeeder(d, u, x)
  \/ \E ok \in BOOLEAN : ExecClaimUpdate(ok)
  \/ \E id \in FeederIds, u \in Users : CheckFeederAssociation(id, u)
  \/ \E ok \in BOOLEAN : ExecAssociationSelect(ok)
  \/ \E id \in FeederIds, n \in Names : SetFeederName(id, n)
  \/ \E ok \in BOOLEAN : ExecNameUpdate(ok)
  \/ \E d \in Identifiers, q \in Amounts : RememberDefaultAmount(d, q)
  \/ \E ok \in BOOLEAN : ExecDefaultUpdate(ok)
  \/ \E d \in Identifiers, q \in Amounts : RecordMeal(d, q)
  \/ \E ok \in BOOLEAN : ExecMealInsert(ok)
  \/ \E id \in FeederIds : GetCurrentPlanning(id)
  \/ \E ok \in BOOLEAN : ExecPlanningSelect(ok)
  \/ \E d \in Identifiers, p \in Plannings : RecordPlanning(d, p)
  \/ \E ok \in BOOLEAN : ExecPlanningBegin(ok)
  \/ \E ok \in BOOLEAN : ExecPlanningHeader(ok)
  \/ \E ok \in BOOLEAN : ExecPlanningMeals(ok)
  \/ \E ok \in BOOLEAN : ExecPlanningCommit(ok)
  \/ \E ok \in BOOLEAN : ExecPlanningRollback(ok)

Spec == Init /\ [][Next]_vars

----------------------------------------------------------------------------
(* The api router of server.js: the feeder routes *)

PerDeviceRoutes ==
  {"POST /feeder/status", "PUT /feeder/feed", "PUT /feeder/quantity",
   "POST /feeder/planning", "PUT /feeder/planning"}

\* What a client may send as its address: an IP, or something that is none.
RequestIPs == { <<"7">>, <<"x">> }

\* req.body.quantity of a feed or quantity request: an amount, or no valid one.
BodyQuantities == {5, -3}

\* new Quantity(amount) accepts the non-negative numbers.
ValidQuantity(amount) == amount >= 0

\* validator.isIP(ip), for the addresses above: digits only.
IsIP(ip) == Len(ip) > 0 /\ \A i \in DOMAIN ip : ip[i] \in {"7", "9"}

\* A request as its handlers have read it so far.
NewRequest(route, user) ==
  [route |-> route, user |-> user, identifier |-> "", id |-> NULL, ip |-> <<>>,
   quantity |-> NoAmount, \* req.body.quantity as the client sent it
   call |-> 0,           \* the coordinator call made for the request
   handled |-> FALSE,    \* next() was called: the route's handler has run
   responses |-> <<>>]   \* what res.json has sent

CanRequest == ~crashed /\ Len(requests) < MaxRequests

\* res.status(status); res.json({ success: false, error: error }); return
Responds(r, status, error) ==
  /\ CanRequest
  /\ requests' = Append(requests, [r EXCEPT !.responses = <<[status |-> status, error |-> error]>>])
  /\ UNCHANGED <<isConnected, conn, queue, db, committed, inTx, autoinc, calls, now, fails, crashed>>

\* The handler calls a coordinator method and returns without a response: the
\* method's statement is enqueued.  The function the handler passes as an
\* extra, last argument is no parameter of claimFeeder or
\* checkFeederAssociation, and nothing is chained to the promise they return.
CallsCoordinator(r, rec, stmt) ==
  /\ CanRequest
  /\ CanCall
  /\ requests' = Append(requests, [r EXCEPT !.call = Len(calls) + 1])
  /\ calls' = Append(calls, rec)
  /\ queue' = Append(queue, Stmt(Len(calls) + 1, stmt))
  /\ UNCHANGED <<isConnected, conn, db, committed, inTx, autoinc, now, fails, crashed>>

\* POST /feeder/claim, behind the login middleware.
PostFeederClaim(session, given, identifier, ip) ==
  LET r == NewRequest("POST /feeder/claim", session)
  IN IF session = NULL
     THEN Responds(r, 403, "Not logged-in")
     ELSE IF ~given
     THEN Responds(r, 500, "No feeder identifier given")
     ELSE IF ~IsIP(ip)
     THEN Responds([r EXCEPT !.identifier = identifier, !.ip = ip], 401, "Feeder not found")
     ELSE CallsCoordinator([r EXCEPT !.identifier = identifier, !.ip = ip],
                           [NewCall("claimFeeder") EXCEPT !.identifier = identifier,
                                                          !.user = session, !.ip = ip],
                           "claim.update")

\* The association middleware calling next() right after it has started the check.
MiddlewareCallsNextUnchecked(given) == given

\* Whether the association middleware itself calls next(): never, next() is in
\* the function it hands to checkFeederAssociation.
MiddlewareCallsNext(given) == FALSE

\* A request to one of the routes behind the association middleware, which
\* passes req.body.identifier as the feeder id.
PerDeviceRequest(route, session, given, id, quantity) ==
  LET r == IF route \in {"PUT /feeder/feed", "PUT /feeder/quantity"}
           THEN [NewRequest(route, session) EXCEPT !.quantity = quantity]
           ELSE NewRequest(route, session)
  IN IF session = NULL
     THEN Responds(r, 403, "Not logged-in")
     ELSE IF ~given
     THEN Responds(r, 500, "No feeder identifier given")
     ELSE CallsCoordinator([r EXCEPT !.id = id, !.handled = MiddlewareCallsNext(given)],
                           [NewCall("checkFeederAssociation") EXCEPT !.id = id,
                                                                     !.user = session],
                           "association.select")

NextServer ==
  \/ Connect
  \/ ConnectFails
  \/ \E ok \in BOOLEAN : ExecShowTables(ok)
  \/ \E d \in Identifiers, x \in IPs : RegisterFeeder(d, SocketAddr(x))
  \/ \E ok \in BOOLEAN : ExecRegisterUpdate(ok)
  \/ \E ok \in BOOLEAN : ExecRegisterInsert(ok)
  \/ \E u \in {NULL} \cup Users, given \in BOOLEAN, d \in Identifiers, x \in RequestIPs :
       PostFeederClaim(u, given, d, x)
  \/ \E ok \in BOOLEAN : ExecClaimUpdate(ok)
  \/ \E route \in PerDeviceRoutes, u \in {NULL} \cup Users, given \in BOOLEAN, id \in FeederIds,
          q \in BodyQuantities :
       PerDeviceRequest(route, u, given, id, q)
  \/ \E ok \in BOOLEAN : ExecAssociationSelect(ok)

SpecServer == Init /\ [][NextServer]_vars

\* The telemetry and quarantine log: check-ins and the three log operations.
NextTelemetry ==
  \/ Connect
  \/ ConnectFails
  \/ Tick
  \/ \E ok \in BOOLEAN : ExecShowTables(ok)
  \/ \E d \in Identifiers, a \in CheckInAddrs : RegisterFeeder(d, a)
  \/ \E ok \in BOOLEAN : ExecRegisterUpdate(ok)
  \/ \E ok \in BOOLEAN : ExecRegisterInsert(ok)
  \/ \E d \in Identifiers, q \in Amounts : RecordMeal(d, q)
  \/ \E ok \in BOOLEAN : ExecMealInsert(ok)
  \/ \E d \in Identifiers, t \in TypeTags, x \in AlertData : LogAlert(d, t, x)
  \/ \E ok \in BOOLEAN : ExecAlertInsert(ok)
  \/ \E t \in TypeTags, x \in Payloads, a \in LogIPs : LogUnknownData(t, x, a)
  \/ \E ok \in BOOLEAN : ExecUnknownInsert(ok)

SpecTelemetry == Init /\ [][NextTelemetry]_vars

----------------------------------------------------------------------------
(* Users: getUserBy, updateUser and models/user.js *)

Day == 24 * 3600

HmacSecret == "secret"

\* Email addresses are sequences of characters.
MailA == <<"a", "@", "x">>
MailB == <<"b", "@", "x">>
MailBShown == <<"B", "@", "x">>
MailC == <<"c", "@", "x">>
NotAMail == <<"z">>

\* The users table when the model starts: user 1 has logged in and waits for
\* the validation of an address user 2 holds; user 2 has never logged in and
\* waits for a free address; user 3 has no address pending, user 4 one that is
\* no email address.
InitialUsers ==
  { [id |-> 1, email |-> MailA, email_shown |-> MailA, email_unvalidated |-> MailBShown,
     password |-> "pw1", login |-> 5],
    [id |-> 2, email |-> MailB, email_shown |-> MailB, email_unvalidated |-> MailC,
     password |-> "pw2", login |-> 0],
    [id |-> 3, email |-> <<"d", "@", "x">>, email_shown |-> <<"d", "@", "x">>,
     email_unvalidated |-> NoEmail, password |-> "pw3", login |-> 5],
    [id |-> 4, email |-> <<"e", "@", "x">>, email_shown |-> <<"e", "@", "x">>,
     email_unvalidated |-> NotAMail, password |-> "pw4", login |-> 5] }

UserIds == { u.id : u \in InitialUsers }

\* new User(row)
UserFromRow(row) ==
  [id |-> row.id, email |-> row.email, shown_email |-> row.email_shown,
   unvalidated_email |-> row.email_unvalidated, password |-> row.password,
   login |-> row.login]

\* validator.isEmail, for the addresses above: something before and after an "@".
IsEmail(e) == \E i \in DOMAIN e : e[i] = "@" /\ 1 < i /\ i < Len(e)

\* validator.normalizeEmail, for the addresses above: lower case.
NormalizeEmail(e) == [i \in DOMAIN e |-> IF e[i] = "B" THEN "b" ELSE e[i]]

\* CryptoHelper.hashBase64(text, secret): a keyed hash, equal for equal inputs only.
HashBase64(text, secret) == [text |-> text, secret |-> secret]

\* CryptoHelper.checkBase64Hash(text, hash, secret)
CheckBase64Hash(text, hash, secret) == hash = HashBase64(text, secret)

\* [timestamp, this.id, key].join(':') with key = this.login + ':' + this.password,
\* as generateUrl signs it for sendResetPassMail; a text is the sequence of its
\* ':'-separated fields.
PassMailText(user, timestamp) == <<timestamp, user.id>> \o <<user.login, user.password>>

\* [timestamp, this.id, this.unvalidated_email].join(':'), as signed for
\* sendValidateEmailMail.
EmailMailText(user, timestamp) == <<timestamp, user.id, user.unvalidated_email>>

\* validatePassMail(config, timestamp, hash), called at time (in seconds)
ValidatePassMail(user, timestamp, hash, time) ==
  IF user.login > 0 /\ timestamp > time - Day
  THEN FALSE
  ELSE CheckBase64Hash(<<timestamp, user.id, user.login, user.password>>, hash, HmacSecret)

\* validateEmailMail(config, timestamp, hash), called at time (in seconds)
ValidateEmailMail(user, timestamp, hash, time) ==
  IF timestamp > time - Day
  THEN FALSE
  ELSE CheckBase64Hash(<<timestamp, user.id, user.unvalidated_email>>, hash, HmacSecret)

\* The state after construction with the users of InitialUsers in the store.
InitUser ==
  /\ isConnected = FALSE
  /\ conn = "connecting"
  /\ queue = <<>>
  /\ db = [EmptyDb EXCEPT !.users = InitialUsers]
  /\ committed = [EmptyDb EXCEPT !.users = InitialUsers]
  /\ inTx = FALSE
  /\ autoinc = [feeders |-> 1, plannings |-> 1, meals |-> 1, alerts |-> 1, unknown_data |-> 1]
  /\ calls = <<>>
  /\ now = 2 * Day
  /\ fails = 0
  /\ crashed = FALSE
  /\ requests = <<>>

\* The query text getUserBy builds, as its clauses: for 'email' the WHERE
\* clause is assigned to query, not appended, and the SELECT is gone.
UserQuery(column) ==
  IF column = "id"
  THEN <<"SELECT ... FROM users u LEFT JOIN feeders f", "WHERE u.id = ?", "HAVING u.id IS NOT NULL">>
  ELSE <<"WHERE u.email = ?", "HAVING u.id IS NOT NULL">>

\* The server parses the text as a statement.
Parses(query) == query[1] = "SELECT ... FROM users u LEFT JOIN feeders f"

\* getUserById(id)
GetUserById(id) ==
  Issue([NewCall("getUserById") EXCEPT !.id = id], <<"user.select">>)

\* The callback of the query of getUserBy('id', id): throws on an error,
\* resolves with new User(results[0]) or undefined.
ExecUserSelect(ok) ==
  /\ Runs("user.select", ok)
  /\ LET c == calls[Head(queue).call]
         results == { u \in db.users : u.id = c.id }
     IN IF ok /\ Parses(UserQuery("id"))
        THEN \E row \in (IF results = {} THEN {NoRow} ELSE results) :
               Returns([c EXCEPT !.status = "resolved",
                                 !.self = IF row = NoRow THEN NoRow ELSE UserFromRow(row)],
                       db, autoinc, <<>>)
        ELSE Throws([calls EXCEPT ![Head(queue).call].failedAt = "user.select"])

\* updateUser(user), on the User object call k resolved with.
UpdateUser(k) ==
  /\ k \in CallIds
  /\ calls[k].op = "getUserById" /\ calls[k].status = "resolved" /\ calls[k].self # NoRow
  /\ Issue([NewCall("updateUser") EXCEPT !.self = calls[k].self], <<"user.update">>)

\* UPDATE users SET email = ?, password = ? WHERE id = ?
UserUpdated(d, user) ==
  [d EXCEPT !.users =
     { IF u.id = user.id THEN [u EXCEPT !.email = user.email, !.password = user.password]
       ELSE u : u \in d.users }]

\* The callback of updateUser's UPDATE: reject(err) or resolve(); a promise
\* that is rejected already stays rejected.
ExecUserUpdate(ok) ==
  /\ Runs("user.update", ok)
  /\ LET c == calls[Head(queue).call]
     IN IF ok
        THEN Returns([c EXCEPT !.status = IF @ = "rejected" THEN @ ELSE "resolved"],
                     UserUpdated(db, c.self), autoinc, <<>>)
        ELSE Returns([c EXCEPT !.status = "rejected", !.failedAt = "user.update"],
                     db, autoinc, <<>>)

\* user.validateUnvalidatedMail(database), on the User object call k resolved with.
ValidateUnvalidatedMail(k) ==
  /\ k \in CallIds
  /\ calls[k].op = "getUserById" /\ calls[k].status = "resolved" /\ calls[k].self # NoRow
  /\ LET user == calls[k].self
         rec == [NewCall("validateUnvalidatedMail") EXCEPT !.self = user]
     IN IF user.unvalidated_email = NoEmail \/ ~IsEmail(user.unvalidated_email)
        THEN Issue([rec EXCEPT !.status = "rejected"], <<>>)
        ELSE Issue([rec EXCEPT !.email = NormalizeEmail(user.unvalidated_email)],
                   <<"user.select.email">>)

\* this.email = newMail; this.shown_email = this.unvalidated_email;
\* this.unvalidated_email = null
Switched(user, newMail) ==
  [user EXCEPT !.email = newMail,
               !.shown_email = user.unvalidated_email,
               !.unvalidated_email = NoEmail]

\* The callback of the query of getUserByEmail(newMail) and the function
\* chained to its promise: throws on an error; otherwise reject(...) when a
\* user has the address (without return), then the three fields are switched
\* and updateUser is called.
ExecUserSelectByEmail(ok) ==
  /\ Runs("user.select.email", ok)
  /\ LET c == calls[Head(queue).call]
         found == \E u \in db.users : u.email = c.email
     IN IF ok /\ Parses(UserQuery("email"))
        THEN Returns([c EXCEPT !.status = IF found THEN "rejected" ELSE @,
                               !.self = Switched(@, c.email)],
                     db, autoinc, <<"user.update">>)
        ELSE Throws([calls EXCEPT ![Head(queue).call].failedAt = "user.select.email"])

\* The timestamps a link may carry, around the 24 hours before the call.
LinkTimestamps == {now - Day - 1, now - Day, now - Day + 1, now}

\* user.validatePassMail(config, timestamp, hash), signed tells whether the
\* hash is the one sendResetPassMail signed for the timestamp.
CallValidatePassMail(k, timestamp, signed) ==
  /\ k \in CallIds
  /\ calls[k].op = "getUserById" /\ calls[k].status = "resolved" /\ calls[k].self # NoRow
  /\ LET user == calls[k].self
         hash == HashBase64(PassMailText(user, timestamp),
                            IF signed THEN HmacSecret ELSE "forged")
     IN Issue([NewCall("validatePassMail") EXCEPT
                 !.self = user, !.timestamp = timestamp, !.hash = hash,
                 !.status = "returned",
                 !.ok = ValidatePassMail(user, timestamp, hash, now)],
              <<>>)

\* user.validateEmailMail(config, timestamp, hash)
CallValidateEmailMail(k, timestamp, signed) ==
  /\ k \in CallIds
  /\ calls[k].op = "getUserById" /\ calls[k].status = "resolved" /\ calls[k].self # NoRow
  /\ LET user == calls[k].self
         hash == HashBase64(EmailMailText(user, timestamp),
                            IF signed THEN HmacSecret ELSE "forged")
     IN Issue([NewCall("validateEmailMail") EXCEPT
                 !.self = user, !.timestamp = timestamp, !.hash = hash,
                 !.status = "returned",
                 !.ok = ValidateEmailMail(user, timestamp, hash, now)],
              <<>>)

NextUser ==
  \/ Connect
  \/ ConnectFails
  \/ \E ok \in BOOLEAN : ExecShowTables(ok)
  \/ \E id \in UserIds : GetUserById(id)
  \/ \E ok \in BOOLEAN : ExecUserSelect(ok)
  \/ \E k \in CallIds : UpdateUser(k)
  \/ \E ok \in BOOLEAN : ExecUserUpdate(ok)
  \/ \E k \in CallIds : ValidateUnvalidatedMail(k)
  \/ \E ok \in BOOLEAN : ExecUserSelectByEmail(ok)
  \/ \E k \in CallIds, t \in LinkTimestamps, signed \in BOOLEAN : CallValidatePassMail(k, t, signed)
  \/ \E k \in CallIds, t \in LinkTimestamps, signed \in BOOLEAN : CallValidateEmailMail(k, t, signed)

SpecUser == InitUser /\ [][NextUser]_vars

----------------------------------------------------------------------------
(* Ownership claims *)

ResolvedClaims(d) ==
  { c \in CallIds : /\ calls[c].op = "claimFeeder"
                    /\ calls[c].identifier = d
                    /\ calls[c].status = "resolved" }

ClaimResolves(c) ==
  /\ calls[c].op = "claimFeeder"
  /\ calls[c].status = "pending"
  /\ calls'[c].status = "resolved"

\* The claimant is entitled to the device: it exists, has no owner, and its
\* recorded check-in came from the claimant's IP.
Entitled(c) ==
  \E r \in db.feeders :
    /\ r.identifier = calls[c].identifier
    /\ r.owner = NULL
    /\ SourceIP(r.ip) = calls[c].ip

\* C2: claimFeeder resolves true only for an existing, unowned feeder whose
\* recorded check-in came from the claimant's IP; when it resolves false no
\* feeder record has changed.
C2_ClaimOnlyWhenEntitled ==
  [][\A c \in CallIds :
       ClaimResolves(c) =>
         /\ calls'[c].ok => Entitled(c)
         /\ ~calls'[c].ok => db'.feeders = db.feeders /\ committed'.feeders = committed.feeders]_vars

C2_Witness ==
  /\ \E c \in CallIds :
       calls[c].op = "claimFeeder" /\ calls[c].status = "resolved" /\ calls[c].ok
  /\ \E c \in CallIds :
       /\ calls[c].op = "claimFeeder" /\ calls[c].status = "resolved" /\ ~calls[c].ok
       /\ ~IdentifierFree(db, calls[c].identifier)

\* C3: a claim from IP X on an unowned device whose check-in was registered
\* with that same X resolves true and makes the claimant the owner.
C3_ClaimFromCheckInAddress ==
  [][\A c \in CallIds :
       ( /\ ClaimResolves(c)
         /\ \E r \in db.feeders : /\ r.identifier = calls[c].identifier
                                  /\ r.owner = NULL
                                  /\ r.ip = calls[c].ip )
       => /\ calls'[c].ok
          /\ \E r \in db'.feeders : /\ r.identifier = calls[c].identifier
                                    /\ r.owner = calls[c].user]_vars

\* C4: a feeder that has an owner keeps that owner in every step.
C4_OwnerNeverChanges ==
  [][\A r \in db.feeders :
       r.owner # NULL => \E r2 \in db'.feeders : r2.id = r.id /\ r2.owner = r.owner]_vars

\* C5: checkFeederAssociation resolves with the feeder's record when the user
\* owns the feeder, and with undefined in every other case (no such feeder, a
\* feeder without owner, a feeder of somebody else).
C5_AssociationOnlyForOwner ==
  [][\A c \in CallIds :
       ( /\ calls[c].op = "checkFeederAssociation"
         /\ calls[c].status = "pending"
         /\ calls'[c].status = "resolved" )
       => IF \E r \in db.feeders : r.id = calls[c].id /\ r.owner = calls[c].user
          THEN /\ calls'[c].row \in db.feeders
               /\ calls'[c].row.id = calls[c].id
               /\ calls'[c].row.owner = calls[c].user
          ELSE calls'[c].row = NoRow]_vars

C5_Witness ==
  \E c \in CallIds :
    /\ calls[c].op = "checkFeederAssociation"
    /\ calls[c].status = "resolved"
    /\ calls[c].row # NoRow
    /\ calls[c].row.owner = calls[c].user

----------------------------------------------------------------------------
(* Plannings *)

ReadOps == {"checkFeederAssociation", "getCurrentPlanning"}

\* A recordPlanning call whose transaction was committed.
Recorded(c) == calls[c].op = "recordPlanning" /\ calls[c].status = "done"

\* No write is under way or was issued since call c.
NoOtherWrite(c) ==
  \A k \in CallIds :
    /\ k < c => calls[k].status # "pending"
    /\ k > c => calls[k].op \in ReadOps

\* The two sequences hold the same meals, each as often.
SameMeals(a, b) ==
  /\ Len(a) = Len(b)
  /\ \A m \in {a[i] : i \in DOMAIN a} \cup {b[i] : i \in DOMAIN b} :
       Cardinality({i \in DOMAIN a : a[i] = m}) = Cardinality({i \in DOMAIN b : b[i] = m})

\* C6: after recordPlanning(device, P) has completed, with no other write,
\* getCurrentPlanning of the device delivers the meals of P.
C6_ReadBackRecordedPlanning ==
  \A c \in CallIds :
    ( /\ Recorded(c)
      /\ NoOtherWrite(c)
      /\ FeederIdOf(db, calls[c].identifier) # NULL
      /\ \E p \in db.plannings : /\ p.id = calls[c].insertId
                                 /\ p.feeder = FeederIdOf(db, calls[c].identifier) )
    => \A meals \in CurrentPlanningResults(db, FeederIdOf(db, calls[c].identifier)) :
         SameMeals(meals, calls[c].planning)

\* C7: a recordPlanning that starts after another one for the same device has
\* completed stores a strictly greater version; the first planning stays stored.
C7_VersionsStrictlyIncrease ==
  [][( /\ Len(calls') = Len(calls) + 1
       /\ calls'[Len(calls')].op = "recordPlanning"
       /\ calls'[Len(calls')].status = "pending" )
     => \A c \in CallIds :
          ( /\ Recorded(c)
            /\ calls[c].identifier = calls'[Len(calls')].identifier
            /\ \E p \in db.plannings : p.id = calls[c].insertId /\ p.feeder # NULL )
          => /\ calls'[Len(calls')].date > calls[c].date
             /\ \E p \in db'.plannings : p.id = calls[c].insertId
             /\ Cardinality(MealRows(db', calls[c].insertId)) = Len(calls[c].planning)]_vars

\* C8: once the bulk insert of the meals has failed and the rollback has run,
\* getCurrentPlanning does not resolve to the new planning, and neither its
\* header nor any of its meals is in the store.
C8_FailedMealsLeavePreviousPlanning ==
  \A c \in CallIds :
    ( /\ calls[c].op = "recordPlanning"
      /\ calls[c].failedAt = "planning.meals"
      /\ ~IdentifierFree(db, calls[c].identifier)
      /\ crashed )
    => /\ \A id \in FeederIds : calls[c].insertId \notin CurrentPlanningIds(db, id)
       /\ \A p \in db.plannings : p.id # calls[c].insertId
       /\ MealRows(db, calls[c].insertId) = {}

\* C9: in the committed store every planning written by recordPlanning is
\* there with all of its meals, and every planned meal has its header.
C9_CommittedPlanningsAreWhole ==
  /\ \A p \in committed.plannings :
       \A c \in CallIds :
         (calls[c].op = "recordPlanning" /\ calls[c].insertId = p.id /\ p.feeder # NULL)
         => Cardinality(MealRows(committed, p.id)) = Len(calls[c].planning)
  /\ \A m \in committed.meals :
       m.planning # NULL => \E p \in committed.plannings : p.id = m.planning

\* The caller of call c got an error: an exception or a rejected promise.
CallerWasTold(c) == calls[c].status \in {"thrown", "rejected"}

\* C10: a recordPlanning that is over without having committed its planning
\* has reported the failure to its caller.
C10_FailureReachesCaller ==
  \A c \in CallIds :
    (calls[c].op = "recordPlanning" /\ calls[c].status \in {"skipped", "lost"})
    => CallerWasTold(c)

\* C11: when getCurrentPlanning is answered for a device that has no planning
\* in the store, its callback receives a Planning of zero meals and nothing is
\* thrown.
C11_NoPlanningGivesEmptyPlanning ==
  [][\A c \in CallIds :
       ( /\ calls[c].op = "getCurrentPlanning"
         /\ calls[c].status = "pending"
         /\ calls'[c].status = "resolved"
         /\ \A p \in db.plannings : p.feeder # calls[c].id )
       => /\ calls'[c].meals = <<>>
          /\ ~crashed']_vars

C11_Witness ==
  \E c \in CallIds :
    /\ calls[c].op = "getCurrentPlanning"
    /\ calls[c].status = "resolved"
    /\ calls[c].meals = <<>>
    /\ \E r \in db.feeders : r.id = calls[c].id
    /\ \A p \in db.plannings : p.feeder # calls[c].id

\* C12: a recordPlanning of zero meals never enqueues a meals insert, and once
\* it has committed (no other write since) getCurrentPlanning of the device
\* delivers zero meals, whatever the earlier plannings of the device hold.
C12_EmptyPlanningBecomesCurrent ==
  /\ \A i \in DOMAIN queue :
       queue[i].stmt = "planning.meals" => Len(calls[queue[i].call].planning) > 0
  /\ \A c \in CallIds :
       ( /\ Recorded(c)
         /\ Len(calls[c].planning) = 0
         /\ NoOtherWrite(c)
         /\ \E p \in db.plannings : /\ p.id = calls[c].insertId
                                    /\ p.feeder # NULL
                                    /\ p.feeder = FeederIdOf(db, calls[c].identifier) )
       => \A meals \in CurrentPlanningResults(db, FeederIdOf(db, calls[c].identifier)) :
            meals = <<>>

\* C13: every committed planning header and meal stays committed, with the
\* same values, in every step (statement, commit, rollback or crash), and stays
\* visible to the connection.
C13_PlanningsOnlyAdded ==
  [][/\ committed.plannings \subseteq committed'.plannings
     /\ committed.meals \subseteq committed'.meals
     /\ committed.plannings \subseteq db'.plannings
     /\ committed.meals \subseteq db'.meals]_vars

C13_Witness ==
  \E c1, c2 \in CallIds :
    /\ c1 < c2
    /\ Recorded(c1)
    /\ Len(calls[c1].planning) > 0
    /\ calls[c2].op = "recordPlanning"
    /\ calls[c2].failedAt \in {"planning.header", "planning.meals", "planning.commit"}
    /\ crashed
    /\ \E p \in committed.plannings : p.id = calls[c1].insertId /\ p.feeder # NULL
    /\ Cardinality(MealRows(committed, calls[c1].insertId)) = Len(calls[c1].planning)

\* C14: a registerFeeder whose statements the store ran without a failure ends
\* resolved with exactly one record of the identifier, holding the given ip and
\* the time of the call; a new record has no owner and no name, a known one
\* keeps its id and every field other than ip and last_responded.
C14_CheckInIsUpsert ==
  [][\A c \in CallIds :
       ( /\ calls[c].op = "registerFeeder"
         /\ calls[c].status = "pending"
         /\ calls'[c].status # "pending"
         /\ queue # <<>> /\ Head(queue).call = c
         /\ conn = "ready" /\ fails' = fails )
       => /\ calls'[c].status = "resolved"
          /\ Cardinality({ r \in db'.feeders : r.identifier = calls[c].identifier }) = 1
          /\ \A r \in db'.feeders :
               r.identifier = calls[c].identifier
               => /\ r.ip = calls[c].ip
                  /\ r.last_responded = calls[c].date
                  /\ IF IdentifierFree(db, calls[c].identifier)
                     THEN r.owner = NULL /\ r.name = NoName
                     ELSE \E old \in db.feeders :
                            r = [old EXCEPT !.ip = calls[c].ip,
                                            !.last_responded = calls[c].date]
          /\ \A old \in db.feeders :
               old.identifier # calls[c].identifier => old \in db'.feeders]_vars

\* The first n characters of text, or all of it when it is shorter.
Truncated(short, text, n) ==
  /\ Len(short) = (IF Len(text) < n THEN Len(text) ELSE n)
  /\ \A i \in 1..Len(short) : short[i] = text[i]

\* C15: on a ready coordinator logUnknownData enqueues no insert when data is
\* exactly the noise bytes and one insert for any other payload; that insert
\* adds exactly one record, holding the payload, the ip and the first 64
\* characters of the type tag.
C15_NoiseDroppedOthersLogged ==
  [][/\ ( /\ Len(calls') = Len(calls) + 1
          /\ calls'[Len(calls')].op = "logUnknownData"
          /\ isConnected )
        => IF calls'[Len(calls')].data = NoiseBytes
           THEN queue' = queue
           ELSE queue' = Append(queue, Stmt(Len(calls'), "unknown.insert"))
     /\ \A c \in CallIds :
          ( /\ calls[c].op = "logUnknownData"
            /\ calls[c].status = "pending"
            /\ calls'[c].status = "done" )
          => /\ calls[c].data # NoiseBytes
             /\ Cardinality(db'.unknown_data) = Cardinality(db.unknown_data) + 1
             /\ db.unknown_data \subseteq db'.unknown_data
             /\ \A r \in db'.unknown_data \ db.unknown_data :
                  /\ r.data = calls[c].data
                  /\ r.ip = calls[c].ip
                  /\ Truncated(r.type, calls[c].type, 64)]_vars

C15_Witness ==
  /\ \E c \in CallIds, r \in db.unknown_data :
       /\ calls[c].op = "logUnknownData"
       /\ calls[c].status = "done"
       /\ r.data = calls[c].data
       /\ r.data = NoiseBytes \o <<0>>
       /\ Len(calls[c].type) > 64
       /\ Len(r.type) = 64
       /\ \E k \in CallIds :
            /\ k > c
            /\ calls[k].op = "logUnknownData"
            /\ calls[k].data = NoiseBytes
            /\ calls[k].status = "skipped"
  /\ Cardinality(db.unknown_data) = 1

\* C16: the step that runs the insert of recordMeal, logAlert or logUnknownData
\* never ends the process and never loses a pending call, also when the store
\* fails; it changes nothing but the table it appends to.
C16_TelemetryFailureSwallowed ==
  [][\A c \in CallIds :
       ( /\ calls[c].op \in {"recordMeal", "logAlert", "logUnknownData"}
         /\ calls[c].status = "pending"
         /\ queue # <<>> /\ Head(queue).call = c
         /\ calls'[c] # calls[c] )
       => /\ ~crashed'
          /\ \A k \in CallIds : calls'[k].status # "lost"
          /\ db'.feeders = db.feeders
          /\ db'.plannings = db.plannings
          /\ db.meals \subseteq db'.meals
          /\ db.alerts \subseteq db'.alerts
          /\ db.unknown_data \subseteq db'.unknown_data]_vars

\* C17: the step that runs the update of rememberDefaultAmount never ends the
\* process and never loses a pending call, also when the store fails; on
\* success no field other than default_value of the device changes.
C17_DefaultAmountBestEffort ==
  [][\A c \in CallIds :
       ( /\ calls[c].op = "rememberDefaultAmount"
         /\ calls[c].status = "pending"
         /\ queue # <<>> /\ Head(queue).call = c
         /\ calls'[c] # calls[c] )
       => /\ ~crashed'
          /\ \A k \in CallIds : calls'[k].status # "lost"
          /\ \A r \in db.feeders :
               \E r2 \in db'.feeders :
                 /\ r2 = [r EXCEPT !.default_value = r2.default_value]
                 /\ r.identifier # calls[c].identifier => r2 = r
          /\ db'.plannings = db.plannings
          /\ db'.meals = db.meals]_vars

----------------------------------------------------------------------------
(* The feeder routes *)

Success == [status |-> 200, error |-> ""]
FeederNotFound == [status |-> 401, error |-> "Feeder not found"]

\* C18: a claim request never has more than one response; one that called no
\* coordinator method has its response, and once claimFeeder has resolved the
\* request has exactly one: success for true, 'Feeder not found' for false.
C18_ClaimRequestAnswered ==
  \A i \in DOMAIN requests :
    LET r == requests[i]
    IN r.route = "POST /feeder/claim"
       => /\ Len(r.responses) <= 1
          /\ r.call = 0 => Len(r.responses) = 1
          /\ (r.call # 0 /\ calls[r.call].status = "resolved")
             => r.responses = << IF calls[r.call].ok THEN Success ELSE FeederNotFound >>

C20_CommandRequestAnswered ==
  \A i \in DOMAIN requests :
    LET r == requests[i]
    IN r.route \in {"PUT /feeder/feed", "PUT /feeder/quantity", "PUT /feeder/planning"}
       => /\ Len(r.responses) <= 1
          /\ ( /\ r.call # 0
               /\ calls[r.call].status = "resolved"
               /\ calls[r.call].row # NoRow )
             => Len(r.responses) = 1

\* The request of a logged-in client fails validation: it names no device, or
\* it is a feed or quantity request without a valid quantity.
FailsValidation(r) ==
  /\ r.user # NULL
  /\ \/ (r.route = "POST /feeder/claim" /\ r.identifier = "")
     \/ (r.route \in PerDeviceRoutes /\ r.id = NULL)
     \/ (r.route \in {"PUT /feeder/feed", "PUT /feeder/quantity"} /\ ~ValidQuantity(r.quantity))

\* C21: for a request that fails validation no coordinator method is called
\* (no statement reaches the store) and no handler runs; it has its failure
\* response.
C21_InvalidRequestTouchesNothing ==
  \A i \in DOMAIN requests :
    FailsValidation(requests[i])
    => /\ requests[i].call = 0
       /\ ~requests[i].handled
       /\ Len(requests[i].responses) = 1
       /\ requests[i].responses[1].status # 200

----------------------------------------------------------------------------
(* The registry and the shared connection *)

\* The step runs a statement of a registerFeeder call.
RunsRegisterFeeder ==
  /\ queue # <<>>
  /\ Head(queue).call # 0
  /\ calls[Head(queue).call].op = "registerFeeder"

\* C22: a step changes the ip or last_responded of a device, or removes the
\* device, only if it runs a statement of registerFeeder.
C22_OnlyCheckInChangesAddress ==
  [][\A r \in db.feeders :
       \/ \E r2 \in db'.feeders :
            /\ r2.id = r.id
            /\ r2.ip = r.ip
            /\ r2.last_responded = r.last_responded
       \/ RunsRegisterFeeder]_vars

\* A call of another operation that has reported success to its caller.
ReportedSuccess(c) ==
  \/ calls[c].op \in {"registerFeeder", "setFeederName"} /\ calls[c].status = "resolved"
  \/ calls[c].op = "claimFeeder" /\ calls[c].status = "resolved" /\ calls[c].ok
  \/ calls[c].op \in {"recordMeal", "rememberDefaultAmount", "recordPlanning"}
     /\ calls[c].status = "done"

\* C24: the step that rolls a failed recordPlanning back leaves the feeders
\* table, the meals of recordMeal and the plannings of other calls as they
\* were when every other call has reported success, and the header of the
\* failed call is not in the committed store afterwards.
C24_RollbackUndoesOwnWritesOnly ==
  [][\A c \in CallIds :
       ( /\ queue # <<>>
         /\ Head(queue) = Stmt(c, "planning.rollback")
         /\ \A k \in CallIds \ {c} : ReportedSuccess(k) )
       => /\ db'.feeders = db.feeders
          /\ \A m \in db.meals : m.planning = NULL => m \in db'.meals
          /\ \A p \in db.plannings : p.id # calls[c].insertId => p \in db'.plannings
          /\ \A p \in committed'.plannings : p.id # calls[c].insertId]_vars

\* C25: the meals getCurrentPlanning hands to its callback are in ascending
\* order of their time of day.
C25_MealsInTimeOrder ==
  \A c \in CallIds :
    (calls[c].op = "getCurrentPlanning" /\ calls[c].status = "resolved")
    => \A i, j \in DOMAIN calls[c].meals :
         i < j => calls[c].meals[i].time <= calls[c].meals[j].time

----------------------------------------------------------------------------
(* Users *)

\* The hash of call c is the one signed for its user and timestamp.
SignedLink(c) ==
  calls[c].hash \in { HashBase64(PassMailText(calls[c].self, calls[c].timestamp), HmacSecret),
                      HashBase64(EmailMailText(calls[c].self, calls[c].timestamp), HmacSecret) }

\* C26: validatePassMail for a user who has logged in, and validateEmailMail,
\* return false for a timestamp more than 24 hours before the call and true
\* for a signed link not older than 24 hours; validatePassMail for a user who
\* never logged in returns true for a signed link of any age.
C26_LinksExpireAfter24h ==
  \A c \in CallIds :
    /\ ( /\ \/ calls[c].op = "validateEmailMail"
            \/ calls[c].op = "validatePassMail" /\ calls[c].self.login > 0
         /\ calls[c].status = "returned" )
       => /\ calls[c].timestamp < calls[c].date - Day => ~calls[c].ok
          /\ ( /\ calls[c].timestamp >= calls[c].date - Day
               /\ calls[c].timestamp <= calls[c].date
               /\ SignedLink(c) )
             => calls[c].ok
    /\ ( /\ calls[c].op = "validatePassMail"
         /\ calls[c].self.login = 0
         /\ calls[c].status = "returned"
         /\ SignedLink(c) )
       => calls[c].ok

\* The statements of updateUser waiting in q for call c.
UpdatesQueued(q, c) ==
  Cardinality({ i \in DOMAIN q : q[i].call = c /\ q[i].stmt = "user.update" })

\* C27: validateUnvalidatedMail with no valid pending email rejects at once
\* and asks the store nothing; when the store answers the lookup of the
\* normalized pending email, a held address rejects the promise, keeps the
\* three fields and calls no updateUser, and a free address switches the
\* three fields and calls updateUser exactly once.
C27_NothingChangesOnError ==
  [][ /\ \A c \in DOMAIN calls' \ DOMAIN calls :
          ( /\ calls'[c].op = "validateUnvalidatedMail"
            /\ \/ calls'[c].self.unvalidated_email = NoEmail
               \/ ~IsEmail(calls'[c].self.unvalidated_email) )
          => /\ calls'[c].status = "rejected"
             /\ UpdatesQueued(queue', c) = 0
             /\ db' = db
      /\ ( /\ queue # <<>>
           /\ Head(queue).stmt = "user.select.email"
           /\ (queue' = <<>> \/ Head(queue') # Head(queue))
           /\ conn = "ready"
           /\ fails' = fails )
         => LET c == Head(queue).call
                user == calls[c].self
            IN IF \E u \in db.users : u.email = calls[c].email
               THEN /\ calls'[c].status = "rejected"
                    /\ calls'[c].self = user
                    /\ UpdatesQueued(queue', c) = 0
               ELSE /\ calls'[c].self = Switched(user, calls[c].email)
                    /\ UpdatesQueued(queue', c) = 1
    ]_vars

====
